---- MODULE Spec2Model ----
(***************************************************************************)
(* Model of the Agent of src/agent.py: the process table (self.servers),   *)
(* the tool registry (self.tools), discovery of the advertisements and the *)
(* dispatch of tool calls over the line-delimited pipes of the tool        *)
(* processes.  The tool processes are the environment: they put lines on   *)
(* their output pipe and may exit.                                         *)
(***************************************************************************)
EXTENDS Naturals, Integers, Sequences, FiniteSets, TLC

\* ---------------------------------------------------------------- bounds
MaxTime == 2          \* the millisecond clock reads 1 to MaxTime
MaxEmit == 3          \* lines the tool processes put on their output pipes, together
MaxCalls == 2         \* dispatch_tool_call invocations, all callers together
MaxAdvLen == 2        \* capability entries in one advertisement
MaxDiscover == 1      \* discover_tools invocations
MaxLog == 1           \* lines the tool processes put on their error pipes, together
MaxPlans == 1         \* plan_workflow invocations
MaxPlanLen == 2       \* steps in one plan

\* ------------------------------------------------------------ value sets
ServerNames == {"s1", "s2"}
ToolNames == {"t1", "t2"}
Callers == {"c1", "c2"}

NoId == 0             \* a JSON object without an "id" key (dict.get gives None)
NoName == "<none>"    \* a capability entry without a "name" key
NoMethod == "<none>"  \* a tool_call without a "method" key
NoServer == "<none>"  \* a call that resolved no server

NotFoundError == "Tool not found."
ClosedError == "Server connection closed."

\* A line of a process's output pipe, as json.loads sees it:
\*   kind "garbage": text json.loads raises on;
\*   kind "obj": a JSON object, id the value of its "id" key (NoId: no key), body
\*               "result" or "error" (which of the two documents it carries), caps
\*               whether it has the key path params.server.capabilities.tools, and
\*               tools the list under that path;
\*   kind "eof": the empty string readline returns at end of stream.
Garbage == [kind |-> "garbage", id |-> NoId, body |-> "none", caps |-> FALSE, tools |-> <<>>]
EOF == [kind |-> "eof", id |-> NoId, body |-> "none", caps |-> FALSE, tools |-> <<>>]
Obj(i, b) == [kind |-> "obj", id |-> i, body |-> b, caps |-> FALSE, tools |-> <<>>]
Adv(entries) == [kind |-> "obj", id |-> NoId, body |-> "none", caps |-> TRUE, tools |-> entries]

\* The capability entry server s sends for the name n: description and parameter schema
\* are the server's own.
Entry(s, n) ==
    [name |-> n, description |-> <<"description", s>>, parameters |-> <<"schema", s>>]

EntryNames == ToolNames \cup {NoName}

\* The sequences of at most n distinct elements of S.
SeqsUpTo(S, n) ==
    {q \in UNION {[1..k -> S] : k \in 0..n} : \A i, j \in DOMAIN q : i # j => q[i] # q[j]}

\* The advertisements server s can send: up to MaxAdvLen different entries, one of them
\* possibly without a name.
AdvLines(s) ==
    {Adv([i \in DOMAIN ns |-> Entry(s, ns[i])]) : ns \in SeqsUpTo(EntryNames, MaxAdvLen)}

\* The lines a process can send first.
FirstLines(s) == AdvLines(s) \cup {Garbage, Obj(NoId, "result")}

\* The lines a process can send after its first one.
ReplyLines == {Garbage, Obj(NoId, "result")}
    \cup {Obj(i, b) : i \in 1..MaxTime, b \in {"result", "error"}}

VARIABLES
    servers,     \* self.servers: the names in insertion order (dict iteration order)
    tools,       \* self.tools: tool name -> entry with server_name
    stdout,      \* per process: lines on its output pipe not yet read by the agent
    stdin,       \* per process: request lines written to its input pipe
    exited,      \* per process: it has exited (its pipes are closed on its side)
    now,         \* int(time.time() * 1000) as last read
    discPc,      \* discover_tools: "idle", "running", "done", "raised"
    discIdx,     \* discover_tools: how many servers the loop has gone through
    discRuns,    \* discover_tools invocations so far
    pc,          \* per caller: "idle", "waiting", "returned", "raised"
    call,        \* per caller: the call in progress (method, request_id, server_name)
    result,      \* per caller: the value dispatch_tool_call returned
    ncalls,      \* per caller: dispatch_tool_call invocations so far
    printed,     \* the messages discover_tools has printed
    firstLine,   \* history: per process, the first line it put on its pipe (EOF: none yet)
    nEmitted,    \* history: lines the processes have put on their pipes
    discLog,     \* history: the <<server, line>> pairs discovery has read, in order
    consumed,    \* history: per caller, the lines the call in progress has read
    inflight,    \* history: per process, ids of the requests written and not answered
    stale,       \* history: per caller, the lines on the pipe older than its request
    stderr,      \* per process: lines on its error pipe not yet read by the agent
    drainPc,     \* per process: its _log_stderr thread: "none", "running", "done"
    drained,     \* per process: the lines its _log_stderr thread has printed
    nLogged,     \* history: lines the processes have put on their error pipes
    plan,        \* what plan_workflow returned last
    nplans       \* plan_workflow invocations so far

vars == <<servers, tools, stdout, stdin, exited, now, discPc, discIdx, pc, call,
          result, ncalls, printed, firstLine, nEmitted, discLog, consumed, discRuns, inflight,
          stale, stderr, drainPc, drained, nLogged, plan, nplans>>

procVars == <<stdout, exited, firstLine, nEmitted>>
callVars == <<pc, call, result, ncalls, consumed>>
discVars == <<discPc, discIdx, discRuns, discLog, printed>>
drainVars == <<stderr, drainPc, drained, nLogged>>
planVars == <<plan, nplans>>

Range(f) == {f[i] : i \in DOMAIN f}

NoCall == [method |-> NoMethod, request_id |-> NoId, server_name |-> NoServer]

\* What dispatch_tool_call returns: {"error": msg}, or the parsed response line.
NoResult == [error |-> "none", response |-> EOF]
ErrorResult(msg) == [error |-> msg, response |-> EOF]
ResponseResult(line) == [error |-> "none", response |-> line]

\* No plan returned yet.
NoPlan == [goal |-> "<none>", prompt |-> {}, steps |-> <<>>, raised |-> FALSE]

Init ==
    /\ servers = <<>>
    /\ tools = [n \in {} |-> NoName]
    /\ stdout = [s \in ServerNames |-> <<>>]
    /\ stdin = [s \in ServerNames |-> <<>>]
    /\ exited = [s \in ServerNames |-> FALSE]
    /\ now = 1
    /\ discPc = "idle"
    /\ discIdx = 0
    /\ pc = [c \in Callers |-> "idle"]
    /\ call = [c \in Callers |-> NoCall]
    /\ result = [c \in Callers |-> NoResult]
    /\ ncalls = [c \in Callers |-> 0]
    /\ printed = {}
    /\ firstLine = [s \in ServerNames |-> EOF]
    /\ nEmitted = 0
    /\ discLog = <<>>
    /\ consumed = [c \in Callers |-> <<>>]
    /\ discRuns = 0
    /\ inflight = [s \in ServerNames |-> <<>>]
    /\ stale = [c \in Callers |-> 0]
    /\ stderr = [s \in ServerNames |-> <<>>]
    /\ drainPc = [s \in ServerNames |-> "none"]
    /\ drained = [s \in ServerNames |-> 0]
    /\ nLogged = 0
    /\ plan = NoPlan
    /\ nplans = 0

\* ------------------------------------------------------------ environment
\* A running tool process writes one line to its output pipe.  Its first line is an
\* advertisement, text that is no JSON, or a JSON object without a capability list;
\* later lines are replies, written once a request has reached the process (the agent
\* reads them only after it wrote a request, so it cannot tell an earlier line apart).
ServerEmit(s) ==
    /\ s \in Range(servers)
    /\ ~exited[s]
    /\ nEmitted < MaxEmit
    /\ firstLine[s] = EOF \/ stdin[s] # <<>>
    /\ nEmitted' = nEmitted + 1
    /\ \E line \in (IF firstLine[s] = EOF THEN FirstLines(s) ELSE ReplyLines) :
        /\ stdout' = [stdout EXCEPT ![s] = Append(@, line)]
        /\ firstLine' = [firstLine EXCEPT ![s] = IF @ = EOF THEN line ELSE @]
    /\ UNCHANGED <<servers, tools, stdin, exited, now, callVars, discVars, inflight,
                   stale, drainVars, planVars>>

\* A tool process exits: what it wrote stays readable, then the pipe is at end of stream.
ServerExit(s) ==
    /\ s \in Range(servers)
    /\ ~exited[s]
    /\ exited' = [exited EXCEPT ![s] = TRUE]
    /\ UNCHANGED <<servers, tools, stdin, stdout, firstLine, nEmitted, now, callVars,
                   discVars, inflight, stale, drainVars, planVars>>

\* Faulty variant: the line is taken from whichever pipe has one (one reader shared by
\* all processes).
ReadLineAnyPipe(s) ==
    IF \E q \in ServerNames : stdout[q] # <<>>
    THEN Head(stdout[CHOOSE q \in ServerNames : stdout[q] # <<>>])
    ELSE EOF

\* Faulty variant: the read takes everything the pipe holds (read() for readline()).
AfterReadAll(s) == [stdout EXCEPT ![s] = <<>>]

\* stdout.readline(): blocks while the pipe is empty and the process runs.
CanRead(s) == stdout[s] # <<>> \/ exited[s]
ReadLine(s) == IF stdout[s] # <<>> THEN Head(stdout[s]) ELSE EOF
AfterRead(s) == IF stdout[s] # <<>> THEN [stdout EXCEPT ![s] = Tail(@)] ELSE stdout

\* A readline on the pipe of s takes its oldest line: a call waiting on s that still had
\* lines older than its request ahead of it has one less.
StaleAfterRead(s) ==
    [d \in Callers |->
        IF pc[d] = "waiting" /\ call[d].server_name = s /\ stale[d] > 0 /\ stdout[s] # <<>>
        THEN stale[d] - 1
        ELSE stale[d]]

\* ------------------------------------------------------------ start_server
\* A process is launched and entered in self.servers under its name.  Each name is
\* started once, between two runs of discover_tools (the agent starts its servers and
\* runs discovery from one thread).
start_server(name) ==
    /\ discPc # "running"
    /\ name \notin Range(servers)
    /\ servers' = Append(servers, name)
    /\ drainPc' = [drainPc EXCEPT ![name] = "running"]
    /\ UNCHANGED <<tools, stdin, procVars, now, callVars, discVars, inflight,
                   stale, stderr, drained, nLogged, planVars>>

\* ------------------------------------------------------------ discover_tools
\* json.loads(line) raises: the line is no JSON text (the empty string at end of stream
\* included).
ParseFails(line) == line.kind \in {"garbage", "eof"}

\* adv_data.get("params", {}).get("server", {}).get("capabilities", {}).get("tools", [])
ServerTools(adv_data) == IF adv_data.caps THEN adv_data.tools ELSE <<>>

\* Faulty variant: a name already in the registry keeps its entry (first registered wins).
PutToolKeepFirst(reg, tool, name) ==
    [n \in DOMAIN reg \cup {tool.name} |->
        IF n \in DOMAIN reg THEN reg[n]
        ELSE [name |-> tool.name, description |-> tool.description,
              parameters |-> tool.parameters, server_name |-> name]]

\* Faulty variant: the entry keeps the owner the advertisement itself names, and an
\* advertisement names none.
PutToolNoOwner(reg, tool, name) ==
    [n \in DOMAIN reg \cup {tool.name} |->
        IF n = tool.name
        THEN [name |-> tool.name, description |-> tool.description,
              parameters |-> tool.parameters, server_name |-> NoServer]
        ELSE reg[n]]

\* self.tools[tool_name] = tool; self.tools[tool_name]['server_name'] = name
PutTool(reg, tool, name) ==
    [n \in DOMAIN reg \cup {tool.name} |->
        IF n = tool.name
        THEN [name |-> tool.name, description |-> tool.description,
              parameters |-> tool.parameters, server_name |-> name]
        ELSE reg[n]]

\* Faulty variant: the loop ends after the first entry it records.
RegisterToolsFirstOnly(reg, server_tools, i, name) ==
    IF i > Len(server_tools) THEN [tools |-> reg, raised |-> FALSE]
    ELSE IF server_tools[i].name = NoName THEN [tools |-> reg, raised |-> TRUE]
    ELSE [tools |-> PutTool(reg, server_tools[i], name), raised |-> FALSE]

\* The loop over server_tools from entry i on: tool['name'] raises KeyError on an entry
\* without a name, and what the loop recorded before it stays recorded.
RECURSIVE RegisterTools(_, _, _, _)
RegisterTools(reg, server_tools, i, name) ==
    IF i > Len(server_tools) THEN [tools |-> reg, raised |-> FALSE]
    ELSE IF server_tools[i].name = NoName THEN [tools |-> reg, raised |-> TRUE]
    ELSE RegisterTools(PutTool(reg, server_tools[i], name), server_tools, i + 1, name)

Discovering == [msg |-> "Discovering tools from all servers", server |-> NoServer, count |-> 0]
Discovered(name, n) == [msg |-> "Discovered", server |-> name, count |-> n]
DiscoveryComplete(n) == [msg |-> "Tool discovery complete", server |-> NoServer, count |-> n]

\* discover_tools is called: with no server started the loop body never runs.
DiscoverStart ==
    /\ discPc # "running"
    /\ discRuns < MaxDiscover
    /\ discRuns' = discRuns + 1
    /\ discIdx' = 0
    /\ IF servers = <<>>
       THEN /\ discPc' = "done"
            /\ printed' = printed
                    \cup {Discovering, DiscoveryComplete(Cardinality(DOMAIN tools))}
       ELSE /\ discPc' = "running"
            /\ printed' = printed \cup {Discovering}
    /\ UNCHANGED <<servers, tools, stdin, procVars, now, callVars, discLog, inflight,
                   stale, drainVars, planVars>>

\* One iteration of the loop over self.servers: read one line of the server's output,
\* parse it and record its tools.  An exception leaves the loop and discover_tools.
DiscoverVisit ==
    /\ discPc = "running"
    /\ LET name == servers[discIdx + 1]
           adv_data == ReadLine(name)
           r == RegisterTools(tools, ServerTools(adv_data), 1, name)
       IN /\ CanRead(name)
          /\ stdout' = AfterRead(name)
          /\ stale' = StaleAfterRead(name)
          /\ discLog' = Append(discLog, <<name, adv_data>>)
          /\ IF ParseFails(adv_data)
             THEN /\ discPc' = "raised"
                  /\ UNCHANGED <<tools, printed, discIdx>>
             ELSE /\ tools' = r.tools
                  /\ IF r.raised
                     THEN /\ discPc' = "raised"
                          /\ UNCHANGED <<printed, discIdx>>
                     ELSE IF discIdx + 1 < Len(servers)
                     THEN /\ discPc' = "running"
                          /\ discIdx' = discIdx + 1
                          /\ printed' = printed
                                \cup {Discovered(name, Len(ServerTools(adv_data)))}
                     ELSE /\ discPc' = "done"
                          /\ discIdx' = discIdx + 1
                          /\ printed' = printed
                                \cup {Discovered(name, Len(ServerTools(adv_data))),
                                      DiscoveryComplete(Cardinality(DOMAIN r.tools))}
    /\ UNCHANGED <<servers, stdin, exited, firstLine, nEmitted, now, callVars, discRuns,
                   inflight, drainVars, planVars>>

\* ------------------------------------------------------------ dispatch_tool_call
Methods == ToolNames \cup {NoMethod}

\* Faulty variant: the request goes out without the version marker.
RequestNoVersion(method, request_id) ==
    [jsonrpc |-> "none", method |-> method, params |-> "{}", id |-> request_id]

Request(method, request_id) ==
    [jsonrpc |-> "2.0", method |-> method, params |-> "{}", id |-> request_id]

\* not method or method not in self.tools
ToolNotFound(method) == method = NoMethod \/ method \notin DOMAIN tools

\* Faulty variant: the second tool of a server is refused until the first one was called
\* (a call order enforced by the dispatcher).
LookupServerOrdered(method) ==
    IF ToolNotFound(method) THEN NoServer
    ELSE IF method = "t2" /\ \A i \in DOMAIN stdin[tools[method].server_name] :
                                    stdin[tools[method].server_name][i].method # "t1"
    THEN NoServer
    ELSE tools[method].server_name

\* Faulty variant: a method the registry does not have goes to the first server started.
LookupServerDefault(method) ==
    IF method \in DOMAIN tools THEN tools[method].server_name
    ELSE IF method # NoMethod /\ servers # <<>> THEN servers[1]
    ELSE NoServer

\* The server a call of the method goes to: self.tools[method]['server_name'], and
\* NoServer for a method the lookup does not find.
LookupServer(method) ==
    IF ToolNotFound(method) THEN NoServer ELSE tools[method].server_name

Sum(f) == LET RECURSIVE S(_)
              S(D) == IF D = {} THEN 0 ELSE LET x == CHOOSE x \in D : TRUE
                                            IN f[x] + S(D \ {x})
          IN S(DOMAIN f)

\* request_id = int(time.time() * 1000), read when the clock shows t
RequestId(t) == t

Remove(seq, x) ==
    IF \E i \in DOMAIN seq : seq[i] = x
    THEN LET k == CHOOSE i \in DOMAIN seq : seq[i] = x /\ \A j \in 1..(i - 1) : seq[j] # x
         IN [i \in 1..(Len(seq) - 1) |-> IF i < k THEN seq[i] ELSE seq[i + 1]]
    ELSE seq

\* dispatch_tool_call up to its first readline: the lookup, then the request written to
\* the owning server's stdin and flushed.  Writing to a process that has exited raises
\* BrokenPipeError.  t is what the clock shows when the call reads it: time passes
\* between two readings, it does not run backwards.
DispatchBegin(c, method, t) ==
    /\ pc[c] # "waiting"
    /\ t >= now
    /\ Sum(ncalls) < MaxCalls
    /\ ncalls' = [ncalls EXCEPT ![c] = @ + 1]
    /\ consumed' = [consumed EXCEPT ![c] = <<>>]
    /\ IF LookupServer(method) = NoServer
       THEN /\ pc' = [pc EXCEPT ![c] = "returned"]
            /\ now' = now
            /\ result' = [result EXCEPT ![c] = ErrorResult(NotFoundError)]
            /\ call' = [call EXCEPT ![c] =
                            [method |-> method, request_id |-> NoId, server_name |-> NoServer]]
            /\ stale' = [stale EXCEPT ![c] = 0]
            /\ UNCHANGED <<stdin, inflight>>
       ELSE LET server_name == LookupServer(method)
            IN /\ call' = [call EXCEPT ![c] =
                            [method |-> method, request_id |-> RequestId(t),
                             server_name |-> server_name]]
               /\ result' = [result EXCEPT ![c] = NoResult]
               /\ now' = t
               /\ IF exited[server_name]
                  THEN /\ pc' = [pc EXCEPT ![c] = "raised"]
                       /\ stale' = [stale EXCEPT ![c] = 0]
                       /\ UNCHANGED <<stdin, inflight>>
                  ELSE /\ pc' = [pc EXCEPT ![c] = "waiting"]
                       /\ stdin' = [stdin EXCEPT ![server_name] =
                                        Append(@, Request(method, RequestId(t)))]
                       /\ inflight' = [inflight EXCEPT ![server_name] = Append(@, RequestId(t))]
                       /\ stale' = [stale EXCEPT ![c] = Len(stdout[server_name])]
    /\ UNCHANGED <<servers, tools, procVars, discVars, drainVars, planVars>>

\* Faulty variant: the loop returns the first JSON object it reads, whatever its id.
OutcomeAnyId(response_line, request_id) ==
    IF response_line.kind = "eof" THEN "closed"
    ELSE IF ParseFails(response_line) THEN "raise"
    ELSE "match"

\* Faulty variant: no test for the empty line of end of stream, which json.loads then raises on.
OutcomeNoEofTest(response_line, request_id) ==
    IF ParseFails(response_line) THEN "raise"
    ELSE IF response_line.id = request_id THEN "match"
    ELSE "skip"

\* What one iteration of the wait loop does with the line it read: "closed" (return the
\* connection error), "raise" (json.loads raises), "match" (return the response) or
\* "skip" (read on).
Outcome(response_line, request_id) ==
    IF response_line.kind = "eof" THEN "closed"
    ELSE IF ParseFails(response_line) THEN "raise"
    ELSE IF response_line.id = request_id THEN "match"
    ELSE "skip"

\* One iteration of the wait loop of dispatch_tool_call.
DispatchRead(c) ==
    /\ pc[c] = "waiting"
    /\ LET s == call[c].server_name
           response_line == ReadLine(s)
           o == Outcome(response_line, call[c].request_id)
       IN /\ CanRead(s)
          /\ stdout' = AfterRead(s)
          /\ stale' = [StaleAfterRead(s) EXCEPT ![c] = IF o = "skip" THEN @ ELSE 0]
          /\ consumed' = [consumed EXCEPT ![c] = Append(@, response_line)]
          /\ inflight' = [inflight EXCEPT ![s] =
                            IF response_line.kind = "obj" THEN Remove(@, response_line.id)
                            ELSE @]
          /\ pc' = [pc EXCEPT ![c] =
                        CASE o = "closed" -> "returned"
                          [] o = "raise" -> "raised"
                          [] o = "match" -> "returned"
                          [] OTHER -> "waiting"]
          /\ result' = [result EXCEPT ![c] =
                        CASE o = "closed" -> ErrorResult(ClosedError)
                          [] o = "match" -> ResponseResult(response_line)
                          [] OTHER -> @]
    /\ UNCHANGED <<servers, tools, stdin, exited, firstLine, nEmitted, now, call, ncalls,
                   discVars, drainVars, planVars>>

Next ==
    \/ \E s \in ServerNames : ServerEmit(s)
    \/ \E s \in ServerNames : ServerExit(s)
    \/ \E s \in ServerNames : start_server(s)
    \/ DiscoverStart
    \/ DiscoverVisit
    \/ \E c \in Callers, m \in Methods, t \in 1..MaxTime : DispatchBegin(c, m, t)
    \/ \E c \in Callers : DispatchRead(c)

Spec == Init /\ [][Next]_vars

\* Start-up alone: the servers are started and discover_tools runs; no tool is called.
\* dispatch_tool_call assigns neither self.tools nor self.servers.
NextDiscovery ==
    \/ \E s \in ServerNames : ServerEmit(s)
    \/ \E s \in ServerNames : ServerExit(s)
    \/ \E s \in ServerNames : start_server(s)
    \/ DiscoverStart
    \/ DiscoverVisit

SpecDiscovery == Init /\ [][NextDiscovery]_vars

\* ------------------------------------------------------------ _log_stderr
\* A running tool process writes one line to its error pipe.
ServerLog(s) ==
    /\ s \in Range(servers)
    /\ ~exited[s]
    /\ nLogged < MaxLog
    /\ nLogged' = nLogged + 1
    /\ stderr' = [stderr EXCEPT ![s] = Append(@, "log line")]
    /\ UNCHANGED <<servers, tools, stdin, procVars, now, callVars, discVars, inflight,
                   stale, drainPc, drained, planVars>>

\* Faulty variant: the thread is handed the process's output pipe and prints its lines.
log_stdout(name) ==
    /\ drainPc[name] = "running"
    /\ stdout[name] # <<>> \/ exited[name]
    /\ IF stdout[name] # <<>>
       THEN /\ stdout' = [stdout EXCEPT ![name] = Tail(@)]
            /\ drained' = [drained EXCEPT ![name] = @ + 1]
            /\ UNCHANGED drainPc
       ELSE /\ drainPc' = [drainPc EXCEPT ![name] = "done"]
            /\ UNCHANGED <<stdout, drained>>
    /\ UNCHANGED <<servers, tools, stdin, exited, firstLine, nEmitted, now, callVars,
                   discVars, inflight, stale, stderr, nLogged, planVars>>

\* One iteration of the thread start_server starts for the process: readline on the
\* error pipe blocks while the pipe is empty and the process runs; a line is printed;
\* the empty string of end of stream ends the loop and the thread.
log_stderr(name) ==
    /\ drainPc[name] = "running"
    /\ stderr[name] # <<>> \/ exited[name]
    /\ IF stderr[name] # <<>>
       THEN /\ stderr' = [stderr EXCEPT ![name] = Tail(@)]
            /\ drained' = [drained EXCEPT ![name] = @ + 1]
            /\ UNCHANGED drainPc
       ELSE /\ drainPc' = [drainPc EXCEPT ![name] = "done"]
            /\ UNCHANGED <<stderr, drained>>
    /\ UNCHANGED <<servers, tools, stdin, procVars, now, callVars, discVars, inflight,
                   stale, nLogged, planVars>>

\* A tool process writes the first line of its output pipe.
ServerAdvertise(s) == firstLine[s] = EOF /\ ServerEmit(s)

\* The agent with the error pipes: the servers are started, write their first line and
\* their error lines and exit; discover_tools runs; each server's thread drains its
\* error pipe; one caller calls tools, of processes that send no reply.  A thread that
\* can take a step is scheduled in the end.
NextDrain ==
    \/ \E s \in ServerNames : ServerAdvertise(s)
    \/ \E s \in ServerNames : ServerExit(s)
    \/ \E s \in ServerNames : start_server(s)
    \/ DiscoverStart
    \/ DiscoverVisit
    \/ \E s \in ServerNames : ServerLog(s)
    \/ \E s \in ServerNames : log_stderr(s)
    \/ \E m \in ToolNames : DispatchBegin("c1", m, now)
    \/ DispatchRead("c1")

SpecDrain ==
    /\ Init
    /\ [][NextDrain]_vars
    /\ \A s \in ServerNames : WF_vars(log_stderr(s))

\* ------------------------------------------------------------ plan_workflow
Goals == {"g1", "g2"}

\* The tools section of the prompt: one "- name: description" line for each registry
\* entry, the parameters left out.
build_planner_system_prompt == {<<n, tools[n].description>> : n \in DOMAIN tools}

\* A step of a plan names a procedure and its arguments.
Steps == [method : ToolNames, params : {"{}"}]
Plans == UNION {[1..k -> Steps] : k \in 0..MaxPlanLen}

\* llm_client.generate_plan: the collaborator answers with an ordered step list, or the
\* call fails because the answer is no well-formed step list.  It is handed the prompt,
\* the goal and the registry, and changes none of them.
generate_plan(system_prompt, user_goal, reg) ==
    {[steps |-> p, raised |-> FALSE] : p \in Plans} \cup {[steps |-> <<>>, raised |-> TRUE]}

\* Faulty variant: the first step of the plan is dispatched when its procedure is
\* registered (the request is written to the owning process).
plan_and_run(user_goal) ==
    /\ nplans < MaxPlans
    /\ nplans' = nplans + 1
    /\ \E r \in generate_plan(build_planner_system_prompt, user_goal, tools) :
        /\ plan' = [goal |-> user_goal, prompt |-> build_planner_system_prompt,
                    steps |-> r.steps, raised |-> r.raised]
        /\ IF r.steps # <<>> /\ r.steps[1].method \in DOMAIN tools
           THEN stdin' = [stdin EXCEPT ![tools[r.steps[1].method].server_name] =
                            Append(@, Request(r.steps[1].method, now))]
           ELSE stdin' = stdin
    /\ UNCHANGED <<servers, tools, procVars, now, callVars, discVars, inflight, stale,
                   drainVars>>

\* plan_workflow: the prompt is built from the registry, the collaborator is asked for
\* a plan, and the plan is returned; an exception of the collaborator leaves the call.
plan_workflow(user_goal) ==
    /\ nplans < MaxPlans
    /\ nplans' = nplans + 1
    /\ \E r \in generate_plan(build_planner_system_prompt, user_goal, tools) :
        plan' = [goal |-> user_goal, prompt |-> build_planner_system_prompt,
                 steps |-> r.steps, raised |-> r.raised]
    /\ UNCHANGED <<servers, tools, stdin, procVars, now, callVars, discVars, inflight,
                   stale, drainVars>>

\* Start-up and planning: the servers are started, discover_tools runs, and
\* plan_workflow is called.
NextPlanning ==
    \/ NextDiscovery
    \/ \E g \in Goals : plan_workflow(g)

SpecPlanning == Init /\ [][NextPlanning]_vars

\* ================================================================ claims
Last(q) == q[Len(q)]

\* A well-formed advertisement: a JSON object with a capability list whose every entry
\* has a name.
WellFormed(line) ==
    /\ line.kind = "obj"
    /\ line.caps
    /\ \A i \in DOMAIN line.tools : line.tools[i].name # NoName

\* The procedure names a line advertises.
AdvNames(line) == {line.tools[i].name : i \in DOMAIN line.tools} \ {NoName}

\* Discovery has read a line of process p.
Visited(p) == \E i \in DOMAIN discLog : discLog[i][1] = p

\* The registry entries process p owns.
OwnedBy(p) == {n \in DOMAIN tools : tools[n].server_name = p}

\* Another process than p advertises the name n.
Collides(p, n) == \E q \in ServerNames \ {p} : n \in AdvNames(firstLine[q])

\* C1: for every process whose first output line is a well-formed advertisement, once
\* discovery has read that line the registry holds an entry for each advertised name and
\* the process owns no entry it did not advertise; absent a collision with another
\* process the entry is the advertised one and its server_name is the process's name.
\* A discovery that returns has read a line of every server it iterated over.
C1_RegistersAdvertised ==
    /\ \A p \in ServerNames :
        (Visited(p) /\ WellFormed(firstLine[p])) =>
            /\ OwnedBy(p) \subseteq AdvNames(firstLine[p])
            /\ \A n \in AdvNames(firstLine[p]) :
                /\ n \in DOMAIN tools
                /\ ~Collides(p, n) =>
                    /\ tools[n].server_name = p
                    /\ tools[n].name = n
                    /\ tools[n].description = Entry(p, n).description
                    /\ tools[n].parameters = Entry(p, n).parameters
    /\ discPc = "done" => \A i \in 1..discIdx : Visited(servers[i])

C1_Witness ==
    /\ discPc = "done"
    /\ Len(servers) = 2
    /\ \A p \in ServerNames : Visited(p) /\ WellFormed(firstLine[p])
    /\ \E p \in ServerNames : Cardinality(AdvNames(firstLine[p])) = 2
    /\ \E p \in ServerNames, n \in ToolNames :
            n \in AdvNames(firstLine[p]) /\ ~Collides(p, n)

\* C2: a process whose first line is not a well-formed advertisement makes discovery
\* fail at that process, and the registry holds no procedure owned by it.
C2_MalformedFailsClean ==
    \A p \in ServerNames :
        (discRuns = 1 /\ Visited(p) /\ ~WellFormed(firstLine[p])) =>
            /\ discPc = "raised"
            /\ Last(discLog)[1] = p
            /\ OwnedBy(p) = {}

\* C7: when discover_tools ends, however it ends, every started process whose first
\* line is a well-formed advertisement has all its procedures registered.
C7_FailureIsolated ==
    [][(discPc = "running" /\ discPc' # "running") =>
        \A p \in Range(servers) :
            WellFormed(firstLine[p]) => AdvNames(firstLine[p]) \subseteq DOMAIN tools']_vars

\* The entries discovery recorded from a line it read: those before the first entry
\* without a name.
Recorded(line) ==
    IF line.kind # "obj" \/ ~line.caps THEN {}
    ELSE {line.tools[i].name : i \in {j \in DOMAIN line.tools :
                                        \A k \in 1..j : line.tools[k].name # NoName}}

\* The reads of discovery that recorded the name n, and the process of the last one.
RecordsOf(n) == {i \in DOMAIN discLog : n \in Recorded(discLog[i][2])}
LastAdvertiser(n) ==
    discLog[CHOOSE i \in RecordsOf(n) : \A j \in RecordsOf(n) : j <= i][1]
Advertisers(n) == {discLog[i][1] : i \in RecordsOf(n)}

\* C8: a name two processes advertise has one registry entry, that of the process
\* discovered last (description, parameter schema and owning process), and a dispatch of
\* the name is written to that process.
C8_LastRegisteredWins ==
    /\ [](\A n \in ToolNames :
            Cardinality(Advertisers(n)) >= 2 =>
                /\ n \in DOMAIN tools
                /\ tools[n].server_name = LastAdvertiser(n)
                /\ tools[n].description = Entry(LastAdvertiser(n), n).description
                /\ tools[n].parameters = Entry(LastAdvertiser(n), n).parameters)
    /\ [][\A s \in ServerNames :
            stdin'[s] # stdin[s] =>
                (Cardinality(Advertisers(Last(stdin'[s]).method)) >= 2
                    => LastAdvertiser(Last(stdin'[s]).method) = s)]_vars

C8_Witness ==
    \E n \in ToolNames, s \in ServerNames :
        /\ Cardinality(Advertisers(n)) >= 2
        /\ stdin[s] # <<>>
        /\ Last(stdin[s]).method = n

\* C9: a collision warning has been printed for every name discovery recorded while
\* the name was already in the registry.
CollisionWarning(n) == [msg |-> "collision", server |-> n, count |-> 0]
C9_CollisionWarned ==
    \A n \in ToolNames : Cardinality(RecordsOf(n)) >= 2 => CollisionWarning(n) \in printed

\* C3: a call returns the first line it reads whose id is its request id, whatever
\* JSON objects with another id or without id it read before; it returns none of those.
Matches(c, line) == line.kind = "obj" /\ line.id = call[c].request_id
C3_ReturnsMatchingResponse ==
    \A c \in Callers :
        /\ \A k \in DOMAIN consumed[c] :
            (/\ Matches(c, consumed[c][k])
             /\ \A j \in 1..(k - 1) :
                    consumed[c][j].kind = "obj" /\ ~Matches(c, consumed[c][j])) =>
                /\ pc[c] = "returned"
                /\ result[c] = ResponseResult(consumed[c][k])
                /\ k = Len(consumed[c])
        /\ (pc[c] = "returned" /\ result[c].error = "none") =>
            /\ consumed[c] # <<>>
            /\ result[c].response = Last(consumed[c])
            /\ Matches(c, Last(consumed[c]))
            /\ \A j \in 1..(Len(consumed[c]) - 1) : ~Matches(c, consumed[c][j])

C3_Witness ==
    \E c \in Callers :
        /\ pc[c] = "returned"
        /\ result[c].error = "none"
        /\ Len(consumed[c]) >= 2

\* C4: a call that reads end of stream before a line with its id has returned the
\* connection-closed error; it is not waiting.
C4_ClosedReturnsError ==
    \A c \in Callers :
        (consumed[c] # <<>> /\ Last(consumed[c]).kind = "eof") =>
            /\ pc[c] = "returned"
            /\ result[c] = ErrorResult(ClosedError)

C4_Witness ==
    \E c \in Callers :
        /\ Len(consumed[c]) >= 2
        /\ Last(consumed[c]).kind = "eof"
        /\ pc[c] = "returned"

\* C5: a call whose method is missing or not in the registry returns the
\* unknown-procedure error; the step writes nothing, reads nothing and changes neither
\* the registry nor the process table.
C5_UnknownProcedure ==
    [][\A c \in Callers :
        (/\ ncalls'[c] = ncalls[c] + 1
         /\ (call'[c].method = NoMethod \/ call'[c].method \notin DOMAIN tools)) =>
            /\ pc'[c] = "returned"
            /\ result'[c] = ErrorResult(NotFoundError)
            /\ UNCHANGED <<stdin, stdout, exited, tools, servers>>]_vars

C5_Witness ==
    \E c \in Callers :
        /\ pc[c] = "returned"
        /\ result[c] = ErrorResult(NotFoundError)
        /\ call[c].method \in ToolNames
        /\ tools # <<>>
        /\ \E s \in ServerNames : ~exited[s] /\ OwnedBy(s) # {}

\* C6: the requests in flight to one process have different ids.
C6_UniqueInFlight ==
    \A s \in ServerNames :
        \A i, j \in DOMAIN inflight[s] : i # j => inflight[s][i] # inflight[s][j]

\* C10: no dispatch call ends by raising.
C10_NeverRaises == \A c \in Callers : pc[c] # "raised"

\* The step is the beginning of a call of caller c.
Begins(c) == ncalls'[c] = ncalls[c] + 1

\* The step is a read of the wait loop of caller c.
Reads(c) == pc[c] = "waiting" /\ consumed'[c] # consumed[c]

\* The line at the head of the pipe of process s, as readline gives it.
HeadLine(s) == IF stdout[s] # <<>> THEN Head(stdout[s]) ELSE EOF

\* C11: once a call to a process has returned the connection-closed error, a later call
\* for a procedure of that process writes nothing to it and returns an error.
C11_ClosedMarksUnusable ==
    [][\A c, d \in Callers :
        (/\ pc[d] = "returned"
         /\ result[d] = ErrorResult(ClosedError)
         /\ Begins(c)
         /\ call'[c].method \in DOMAIN tools
         /\ tools[call'[c].method].server_name = call[d].server_name) =>
            /\ pc'[c] = "returned"
            /\ result'[c].error # "none"
            /\ UNCHANGED <<stdin, stdout>>]_vars

\* C12: whatever calls came before, a call of a registered procedure whose process runs
\* is written to that process, and the call returns the matching response the process
\* sends, an error document included.
C12_NoCallOrder ==
    /\ [][\A c \in Callers :
            (/\ Begins(c)
             /\ call'[c].method \in DOMAIN tools
             /\ ~exited[tools[call'[c].method].server_name]) =>
                /\ pc'[c] = "waiting"
                /\ call'[c].server_name = tools[call'[c].method].server_name
                /\ Len(stdin'[call'[c].server_name]) = Len(stdin[call'[c].server_name]) + 1
                /\ Last(stdin'[call'[c].server_name]).method = call'[c].method]_vars
    /\ [][\A c \in Callers :
            (/\ Reads(c)
             /\ HeadLine(call[c].server_name).kind = "obj"
             /\ HeadLine(call[c].server_name).id = call[c].request_id) =>
                /\ pc'[c] = "returned"
                /\ result'[c] = ResponseResult(HeadLine(call[c].server_name))]_vars

\* The first call a process received was for its tool t2, no call for t1 came before, and
\* the process answered with an error document, which the call returned.
C12_Witness ==
    \E c \in Callers :
        /\ pc[c] = "returned"
        /\ call[c].method = "t2"
        /\ result[c].response.kind = "obj"
        /\ result[c].response.body = "error"
        /\ Len(stdin[call[c].server_name]) = 1
        /\ "t1" \in OwnedBy(call[c].server_name)

\* C13: a read of a call takes the line at the head of its own process's pipe, leaves
\* every other pipe and every other call as they are, and can be taken whenever its own
\* pipe has a line or is closed, whatever the other process and the other calls do.
C13_IndependentCalls ==
    /\ [][\A c \in Callers :
            Reads(c) =>
                /\ Last(consumed'[c]) = HeadLine(call[c].server_name)
                /\ \A s \in ServerNames \ {call[c].server_name} : stdout'[s] = stdout[s]
                /\ \A d \in Callers \ {c} :
                    /\ pc'[d] = pc[d]
                    /\ result'[d] = result[d]
                    /\ consumed'[d] = consumed[d]]_vars
    /\ [](\A c \in Callers :
            (/\ pc[c] = "waiting"
             /\ (stdout[call[c].server_name] # <<>> \/ exited[call[c].server_name])) =>
                ENABLED DispatchRead(c))

\* One call has returned the response of its process while the other still waits for a
\* different process that has sent nothing.
C13_Witness ==
    \E c, d \in Callers :
        /\ call[c].server_name # call[d].server_name
        /\ call[c].server_name # NoServer
        /\ call[d].server_name # NoServer
        /\ pc[c] = "returned"
        /\ result[c].response.kind = "obj"
        /\ pc[d] = "waiting"
        /\ stdout[call[d].server_name] = <<>>
        /\ consumed[d] = <<>>

\* C15: when two calls wait on the same process with different ids and one of them reads
\* the line that carries the other's id, it discards the line: the line is off the pipe,
\* the reader keeps waiting and the other call has not received it.
C15_ResponseStolen ==
    [][\A c, d \in Callers :
        (/\ c # d
         /\ pc[c] = "waiting"
         /\ call[c].server_name = call[d].server_name
         /\ call[c].request_id # call[d].request_id
         /\ Reads(d)
         /\ HeadLine(call[d].server_name).kind = "obj"
         /\ HeadLine(call[d].server_name).id = call[c].request_id) =>
            /\ pc'[d] = "waiting"
            /\ stdout'[call[d].server_name] = Tail(stdout[call[d].server_name])
            /\ pc'[c] = "waiting"
            /\ result'[c] = result[c]]_vars

\* The earlier call ended with the connection-closed error although the line with its
\* id was sent: the later call read and discarded it.
C15_Witness ==
    \E c, d \in Callers :
        /\ c # d
        /\ call[c].server_name = call[d].server_name
        /\ call[c].server_name # NoServer
        /\ call[c].request_id < call[d].request_id
        /\ \E k \in DOMAIN consumed[d] :
                consumed[d][k].kind = "obj" /\ consumed[d][k].id = call[c].request_id
        /\ pc[c] = "returned"
        /\ result[c] = ErrorResult(ClosedError)
        /\ \A k \in DOMAIN consumed[c] : ~Matches(c, consumed[c][k])

\* C17: a call of a registered procedure whose process runs appends one line to the
\* stdin of the owning process, with version marker, method, params and id, in the step
\* before its first read; no other stdin changes, and reads write nothing.
C17_OneRequestLine ==
    /\ [][\A c \in Callers :
            (/\ Begins(c)
             /\ call'[c].method \in DOMAIN tools
             /\ ~exited[tools[call'[c].method].server_name]) =>
                LET s == tools[call'[c].method].server_name
                IN /\ stdin'[s] = Append(stdin[s],
                            [jsonrpc |-> "2.0", method |-> call'[c].method,
                             params |-> "{}", id |-> call'[c].request_id])
                   /\ \A q \in ServerNames \ {s} : stdin'[q] = stdin[q]
                   /\ consumed'[c] = <<>>
                   /\ stdout' = stdout]_vars
    /\ [][(\A c \in Callers : ~Begins(c)) => stdin' = stdin]_vars
    /\ [](\A c \in Callers :
            (pc[c] = "waiting" \/ consumed[c] # <<>>) =>
                \E i \in DOMAIN stdin[call[c].server_name] :
                    /\ stdin[call[c].server_name][i].id = call[c].request_id
                    /\ stdin[call[c].server_name][i].method = call[c].method)

C17_Witness ==
    \E c \in Callers :
        /\ consumed[c] # <<>>
        /\ Len(stdin[call[c].server_name]) = 1
        /\ \A s \in ServerNames \ {call[c].server_name} : stdin[s] = <<>>

\* C19: the owning process of every registry entry is a key of the process table, and
\* the lookup of a registered procedure gives a started server.
C19_OwnerInProcessTable ==
    \A n \in DOMAIN tools :
        /\ tools[n].server_name \in Range(servers)
        /\ LookupServer(n) \in Range(servers)

C19_Witness ==
    /\ Cardinality(DOMAIN tools) = 2
    /\ \E c \in Callers : pc[c] = "waiting"
    /\ \E s \in ServerNames : exited[s] /\ OwnedBy(s) # {}

\* C20: a read of the wait loop or of discovery takes exactly the line at the head of one
\* pipe and leaves the rest of the pipe in place; a call that has returned or raised
\* reads nothing more; discovery reads one line of a process in one run.
LinesOf(p) == {i \in DOMAIN discLog : discLog[i][1] = p}
C20_ReadsNoFurther ==
    /\ [][\A s \in ServerNames :
            (stdout'[s] # stdout[s] /\ Len(stdout'[s]) <= Len(stdout[s])) =>
                /\ stdout'[s] = Tail(stdout[s])
                /\ \A q \in ServerNames \ {s} : stdout'[q] = stdout[q]
                /\ \/ /\ discLog' = Append(discLog, <<s, Head(stdout[s])>>)
                      /\ consumed' = consumed
                   \/ /\ discLog' = discLog
                      /\ \E c \in Callers :
                            /\ pc[c] = "waiting"
                            /\ call[c].server_name = s
                            /\ consumed' = [consumed EXCEPT ![c] =
                                                Append(@, Head(stdout[s]))]]_vars
    /\ [][\A c \in Callers :
            (pc[c] # "waiting" /\ ~Begins(c)) => consumed'[c] = consumed[c]]_vars
    /\ [](\A p \in ServerNames : Cardinality(LinesOf(p)) <= discRuns)

\* A call returned the matching response and a later line of the
\* process is still on the pipe.
C20_Witness ==
    \E c \in Callers :
        /\ pc[c] = "returned"
        /\ result[c].response.kind = "obj"
        /\ stdout[call[c].server_name] # <<>>
        /\ Visited(call[c].server_name)

\* C16: when a call was abandoned with its request outstanding, a later call to the same
\* process does not return the late response to that request: a line that lay on the
\* pipe before the later call wrote its own request and carries the id of the abandoned
\* request is never the result of the later call.
Abandoned(d, s, i) ==
    /\ pc[d] = "raised"
    /\ consumed[d] # <<>>
    /\ call[d].server_name = s
    /\ call[d].request_id = i
C16_StaleDropped ==
    [][\A c \in Callers :
        (Reads(c) /\ pc'[c] = "returned" /\ result'[c].error = "none") =>
            ~ /\ stale[c] > 0
              /\ \E d \in Callers \ {c} :
                    Abandoned(d, call[c].server_name, result'[c].response.id)]_vars

\* C18: a step of a process's error-pipe thread changes the error pipe and the thread
\* alone (not the output pipes, the request pipes, the registry, the process table,
\* discovery or a call); whatever the threads are doing, discovery and a waiting call
\* read as soon as the process they are at has a line or has exited, and a caller that
\* is not waiting can begin a call; and the thread of a process that has exited ends.
DrainStep(s) ==
    \/ drained'[s] # drained[s]
    \/ drainPc[s] = "running" /\ drainPc'[s] = "done"
C18_DrainIndependent ==
    /\ [][\A s \in ServerNames :
            DrainStep(s) =>
                /\ UNCHANGED <<servers, tools, stdin, procVars, now, callVars, discVars,
                               inflight, stale>>
                /\ \A q \in ServerNames \ {s} :
                        /\ stderr'[q] = stderr[q]
                        /\ drainPc'[q] = drainPc[q]
                /\ \/ stderr[s] # <<>> /\ stderr'[s] = Tail(stderr[s])
                   \/ stderr[s] = <<>> /\ exited[s] /\ stderr'[s] = <<>>]_vars
    /\ [](discPc = "running" /\ CanRead(servers[discIdx + 1]) => ENABLED DiscoverVisit)
    /\ [](\A c \in Callers :
            pc[c] = "waiting" /\ CanRead(call[c].server_name) => ENABLED DispatchRead(c))
    /\ [](\A c \in Callers, m \in ToolNames :
            pc[c] # "waiting" /\ Sum(ncalls) < MaxCalls => ENABLED DispatchBegin(c, m, now))
    /\ \A s \in ServerNames :
            (exited[s] /\ drainPc[s] = "running") ~> (drainPc[s] = "done")

\* The thread of a process printed a line of its error pipe and ended; discovery had
\* registered the process's tools and a call to it read the end of its output pipe.
C18_Witness ==
    \E s \in ServerNames :
        /\ drainPc[s] = "done"
        /\ drained[s] > 0
        /\ discPc = "done"
        /\ OwnedBy(s) # {}
        /\ \E c \in Callers :
                /\ pc[c] = "returned"
                /\ call[c].server_name = s
                /\ result[c].error = ClosedError

\* C14: a call of plan_workflow, whatever the goal and whatever the collaborator
\* answers, leaves every pipe of every process, every call, the registry, the process
\* table and discovery as they were; it returns a step list of the collaborator, or
\* the collaborator's failure leaves it.
C14_PlanOnly ==
    [][nplans' # nplans =>
        /\ UNCHANGED <<servers, tools, stdin, procVars, now, callVars, discVars, inflight,
                       stale, drainVars>>
        /\ plan'.goal \in Goals
        /\ plan'.prompt = build_planner_system_prompt
        /\ plan'.raised \/ plan'.steps \in Plans]_vars

\* plan_workflow returned a plan of two steps whose first procedure is registered, and
\* no request has been written to any process.
C14_Witness ==
    /\ nplans > 0
    /\ ~plan.raised
    /\ Len(plan.steps) >= 2
    /\ plan.steps[1].method \in DOMAIN tools
    /\ \A s \in ServerNames : stdin[s] = <<>>
====
